---- MODULE Spec2Model ----
(***************************************************************************)
(* A model of the twlc logger (twlc.go): the package-level default logger, *)
(* NewTwlc / DefaultTwlc / createLogDir, WriteLog with its filesystem      *)
(* steps (stat, create, open, append, deferred close), setColor, the       *)
(* per-severity shorthands and the two render helpers.                     *)
(*                                                                         *)
(* Text is a sequence of one-character strings, so that concatenation in   *)
(* the Go code is \o here.  Three characters stand for text the model does *)
(* not spell out: ESC is the byte \033, STAMP is the date-time prefix the  *)
(* log package writes under log.LstdFlags, LOC is the "file:line: " prefix *)
(* it writes under log.Lshortfile.                                         *)
(***************************************************************************)
EXTENDS Integers, Sequences, FiniteSets, TLC

(* ------------------------------ bounds -------------------------------- *)

\* Calls (WriteLog, shorthands, render helpers) made in one run of the process.
MaxCalls == 2

\* Calendar days the clock can reach.
MaxDay == 2

\* Length of the messages drawn from MsgAlphabet.
MaxMsgLen == 1

\* Writes to a log file that fail in one run of the process.
MaxWriteFailures == 1

(* ------------------------------- text --------------------------------- *)

ESC == "ESC"
STAMP == "STAMP"
LOC == "LOC"
NL == "\n"

\* A proper, non-empty part of a header: what is in the file when a write
\* stops inside the date-time stamp or inside the file:line field.
Torn(header) == header \o "~"

\* const Info .. Trace
Info == <<"I", "N", "F", "O">>
Success == <<"S", "U", "C", "C", "E", "S", "S">>
Warning == <<"W", "A", "R", "N", "I", "N", "G">>
Error == <<"E", "R", "R", "O", "R">>
Debug == <<"D", "E", "B", "U", "G">>
Trace == <<"T", "R", "A", "C", "E">>

\* A MessageType that is no key of colorMap (MessageType is a string type).
Audit == <<"A", "U", "D", "I", "T">>

Severities == {Info, Success, Warning, Error, Debug, Trace}

Code(digit) == <<ESC, "[", "3", digit, "m">>

Reset == <<ESC, "[", "0", "m">>

colorMap == (Info :> Code("4")) @@ (Success :> Code("2")) @@ (Warning :> Code("3"))
            @@ (Error :> Code("1")) @@ (Debug :> Code("5")) @@ (Trace :> Code("6"))

DiskFull == <<"d", "i", "s", "k", " ", "f", "u", "l", "l">>

MsgAlphabet == {"a", NL}

SeqsUpTo(S, n) == UNION {[1..k -> S] : k \in 0..n}

\* The messages the callers pass.
Messages == SeqsUpTo(MsgAlphabet, MaxMsgLen) \cup {DiskFull}

\* fmt.Sprintf("[%s] %s", messageType, message)
Bracketed(messageType, message) == <<"[">> \o messageType \o <<"]", " ">> \o message

\* log.(*Logger).Output: the header of the flags, the text, and a newline
\* unless the text already ends with one.
LogOutput(shortfile, s) ==
    <<STAMP>> \o (IF shortfile THEN <<LOC>> ELSE <<>>) \o s
        \o (IF Len(s) = 0 \/ s[Len(s)] # NL THEN <<NL>> ELSE <<>>)

\* Variant of FileLine: the arguments are colorized before the file write.
FileLineColored(WithTime, messageType, message) ==
    LogOutput(WithTime,
              Bracketed(IF messageType \in DOMAIN colorMap
                        THEN colorMap[messageType] \o messageType \o Reset
                        ELSE messageType,
                        message))

\* The line logger.Printf writes to the log file (lines 58-62).
FileLine(WithTime, messageType, message) ==
    LogOutput(WithTime, Bracketed(messageType, message))

\* What can have reached the file when the Write of a line returns: the
\* whole line (the write succeeded), or, the write having failed, nothing or
\* any proper part of the line, cut between two characters or inside a header.
Landed(line) ==
    {SubSeq(line, 1, n) : n \in 0..Len(line)}
        \cup {SubSeq(line, 1, n - 1) \o <<Torn(line[n])>> :
                 n \in {i \in 1..Len(line) : line[i] \in {STAMP, LOC}}}

\* Variant of ConsoleLine: fmt.Printf whatever WithTime is.
ConsoleLineNoStamp(WithTime, messageType, message) ==
    [stream |-> "stdout", text |-> Bracketed(messageType, message) \o <<NL>>]

\* What lines 69-75 write to the console: log.Printf on the standard logger
\* (stderr, LstdFlags) or fmt.Printf with a trailing newline (stdout).
ConsoleLine(WithTime, messageType, message) ==
    IF WithTime
    THEN [stream |-> "stderr", text |-> LogOutput(FALSE, Bracketed(messageType, message))]
    ELSE [stream |-> "stdout", text |-> Bracketed(messageType, message) \o <<NL>>]

\* Variant of setColor: FGColor and BGColor exchanged.
setColorSwapped(FGColor, BGColor, messageType, message) ==
    IF messageType \notin DOMAIN colorMap
    THEN <<messageType, message>>
    ELSE LET color == colorMap[messageType]
         IN  << IF FGColor THEN color \o messageType \o Reset ELSE messageType,
                IF BGColor THEN color \o message \o Reset ELSE message >>

\* setColor (lines 78-92): the pair (messageType, message) it returns.
setColor(FGColor, BGColor, messageType, message) ==
    IF messageType \notin DOMAIN colorMap
    THEN <<messageType, message>>
    ELSE LET color == colorMap[messageType]
         IN  << IF BGColor THEN color \o messageType \o Reset ELSE messageType,
                IF FGColor THEN color \o message \o Reset ELSE message >>

\* time.Now().Format("20060102") for the days of the model.
FormatDate(day) == "2025010" \o ToString(day)

\* filepath.Join(t.LogDir, "twlc_"+date+".log")
LogFileName(day) == "twlc_" \o FormatDate(day) \o ".log"

Join(dir, name) == <<dir, name>>

(* ------------------------------ values -------------------------------- *)

\* The values the render helpers are given: the struct of the doc comment
\* (lines 122-129) and a channel, which encoding/json cannot represent.
Dog == [kind |-> "struct", type |-> "main.Animal", Name |-> "Dog", Age |-> 5]

Chan == [kind |-> "chan", type |-> "chan int"]

Values == {Dog, Chan}

\* StructToString (lines 130-135): %+v or %#v of the value.
StructToString(v, simple) ==
    IF v.kind = "struct"
    THEN IF simple
         THEN "{Name:" \o v.Name \o " Age:" \o ToString(v.Age) \o "}"
         ELSE v.type \o "{Name:\"" \o v.Name \o "\", Age:" \o ToString(v.Age) \o "}"
    ELSE IF simple THEN "0xADDR" ELSE "(" \o v.type \o ")(0xADDR)"

\* StructToJson (lines 141-147): the pair (string, error).
StructToJson(v) ==
    IF v.kind = "struct"
    THEN [str |-> "{\n    \"Name\": \"" \o v.Name \o "\",\n    \"Age\": "
                    \o ToString(v.Age) \o "\n}",
          err |-> "nil"]
    ELSE [str |-> "",
          err |-> "failed to convert struct to JSON: json: unsupported type: " \o v.type]

NoResult == [str |-> "", err |-> "nil"]

(* ------------------------------- state -------------------------------- *)

VARIABLES
    phase,        \* "load": package initialisation pending; "main": main runs; "exited"
    exitCause,    \* "none", "panic", or the diagnostic of the log.Fatalf that ended the process
    exeOK,        \* whether os.Executable() succeeds in this process
    dirs,         \* filesystem: the state of each log directory path
    files,        \* filesystem: each log file path -> [exists, lines]
    today,        \* the calendar day time.Now() falls on
    heap,         \* the allocated Twlc structs, by address
    Logger,       \* the package variable Logger: an address, or Nil
    referenced,   \* whether main has used the package variable Logger
    t,            \* each caller's receiver: an address, or Nil
    pc,           \* each caller's position
    messageType,  \* WriteLog's parameter messageType, per caller
    message,      \* WriteLog's parameter message, per caller
    handle,       \* the file WriteLog holds open, per caller (NoPath: none)
    emitted,      \* what the caller's current or latest WriteLog wrote to the console
    ret,          \* what the caller's latest render helper returned
    ncalls,       \* calls made so far
    args,         \* history: the arguments and the day of the WriteLog call in progress
    written       \* history: every line passed to logger.Printf, in order, and
                  \* the part of it the write put in the file

vars == <<phase, exitCause, exeOK, dirs, files, today, heap, Logger, referenced,
          t, pc, messageType, message, handle, emitted, ret, ncalls, args, written>>

Callers == {1, 2}

Nil == "nil"

DefaultAddr == "Logger"

Addr(c) == "twlc" \o ToString(c)

\* exeDir + "/logs/" (line 181)
DefaultLogDir == "exeDir/logs/"

\* The directory the callers pass to NewTwlc.
UserLogDir == "/tmp/x"

LogDirs == {DefaultLogDir, UserLogDir}

\* What os.Stat finds at a directory path: nothing, a directory, a directory
\* the process may not search ("nosearch": os.Stat of the directory succeeds,
\* every access to a file in it fails with EACCES), something that is no
\* directory, or an error other than not-exist.
DirStates == {"absent", "dir", "nosearch", "file", "noaccess"}

Days == 1..MaxDay

Paths == {Join(d, LogFileName(day)) : d \in LogDirs, day \in Days}

NoPath == <<>>

NoFile == [exists |-> FALSE, lines |-> <<>>]

NoArgs == [sev |-> <<>>, msg |-> <<>>, day |-> 0]

FlagSets == [SaveInLogFile : BOOLEAN, ShowInConsole : BOOLEAN, ColorMessages : BOOLEAN,
             BGColor : BOOLEAN, FGColor : BOOLEAN, WithTime : BOOLEAN]

\* The struct NewTwlc returns (lines 162-170); LogFilePath is left "".
NewTwlc(f, logDir) ==
    [SaveInLogFile |-> f.SaveInLogFile, ShowInConsole |-> f.ShowInConsole,
     ColorMessages |-> f.ColorMessages, BGColor |-> f.BGColor, FGColor |-> f.FGColor,
     WithTime |-> f.WithTime, LogDir |-> logDir, LogFilePath |-> NoPath]

\* The struct DefaultTwlc returns (line 185).
DefaultTwlc ==
    [SaveInLogFile |-> TRUE, ShowInConsole |-> TRUE, ColorMessages |-> TRUE,
     BGColor |-> TRUE, FGColor |-> TRUE, WithTime |-> TRUE,
     LogDir |-> DefaultLogDir, LogFilePath |-> NoPath]

Init ==
    /\ phase = "load"
    /\ exitCause = "none"
    /\ exeOK \in BOOLEAN
    /\ dirs \in [LogDirs -> DirStates]
    /\ files = [p \in Paths |-> NoFile]
    /\ today = 1
    /\ heap = <<>>
    /\ Logger = Nil
    /\ referenced = FALSE
    /\ t = [c \in Callers |-> Nil]
    /\ pc = [c \in Callers |-> "start"]
    /\ messageType = [c \in Callers |-> <<>>]
    /\ message = [c \in Callers |-> <<>>]
    /\ handle = [c \in Callers |-> NoPath]
    /\ emitted = [c \in Callers |-> <<>>]
    /\ ret = [c \in Callers |-> NoResult]
    /\ ncalls = 0
    /\ args = [c \in Callers |-> NoArgs]
    /\ written = <<>>

(* --------------------------- process exit ----------------------------- *)

\* Variant of Fatalf: the diagnostic is logged and the caller carries on.
FatalfReturns(diagnostic) ==
    /\ phase' = phase
    /\ exitCause' = diagnostic

\* log.Fatalf: the diagnostic is written and os.Exit(1) ends the process
\* at once; deferred calls do not run.
Fatalf(diagnostic) ==
    /\ phase' = "exited"
    /\ exitCause' = diagnostic

\* os.IsNotExist(err) for os.Stat(logDir)
DirNotExist(logDir) == dirs[logDir] = "absent"

\* createLogDir (lines 188-195); mkdirOK is whether os.MkdirAll succeeds.
\* TRUE when it returns, FALSE when it ends the process.
createLogDirReturns(logDir, mkdirOK) == ~DirNotExist(logDir) \/ mkdirOK

dirsAfterCreateLogDir(logDir) ==
    IF DirNotExist(logDir) THEN [dirs EXCEPT ![logDir] = "dir"] ELSE dirs

(* ------------------------- package initialisation --------------------- *)

\* var Logger = DefaultTwlc() (line 32, with lines 173-186): run when the
\* package is initialised, before main.
PackageInit ==
    /\ phase = "load"
    /\ \E mkdirOK \in BOOLEAN :
        IF ~exeOK
        THEN /\ phase' = "exited"
             /\ exitCause' = "panic"
             /\ UNCHANGED <<dirs, heap, Logger>>
        ELSE IF createLogDirReturns(DefaultLogDir, mkdirOK)
        THEN /\ dirs' = dirsAfterCreateLogDir(DefaultLogDir)
             /\ heap' = (DefaultAddr :> DefaultTwlc) @@ heap
             /\ Logger' = DefaultAddr
             /\ phase' = "main"
             /\ UNCHANGED exitCause
        ELSE /\ Fatalf("Failed to create log directory")
             /\ UNCHANGED <<dirs, heap, Logger>>
    /\ UNCHANGED <<exeOK, files, today, referenced, t, pc, messageType, message,
                   handle, emitted, ret, ncalls, args, written>>

\* The calendar date changes.
Tick ==
    /\ phase = "main"
    /\ today < MaxDay
    /\ today' = today + 1
    /\ UNCHANGED <<phase, exitCause, exeOK, dirs, files, heap, Logger, referenced,
                   t, pc, messageType, message, handle, emitted, ret, ncalls, args, written>>

(* ---------------------------- construction ---------------------------- *)

\* main calls NewTwlc(flags, UserLogDir) (lines 159-171).
NewTwlcCall(c, flagSets) ==
    /\ phase = "main"
    /\ pc[c] = "start"
    /\ \E f \in flagSets, mkdirOK \in BOOLEAN :
        IF createLogDirReturns(UserLogDir, mkdirOK)
        THEN /\ dirs' = dirsAfterCreateLogDir(UserLogDir)
             /\ heap' = (Addr(c) :> NewTwlc(f, UserLogDir)) @@ heap
             /\ t' = [t EXCEPT ![c] = Addr(c)]
             /\ pc' = [pc EXCEPT ![c] = "idle"]
             /\ UNCHANGED <<phase, exitCause>>
        ELSE /\ Fatalf("Failed to create log directory")
             /\ UNCHANGED <<dirs, heap, t, pc>>
    /\ UNCHANGED <<exeOK, files, today, Logger, referenced, messageType, message,
                   handle, emitted, ret, ncalls, args, written>>

\* The caller takes the package variable Logger as its logger.  Two callers
\* may both do so and then share one struct, which has no lock: their
\* accesses to t.LogFilePath (written at line 48, read at lines 150, 151 and
\* 52) race.  Every such read takes the value of whichever write came last
\* in the interleaving; the paths a logger is given differ in the date only
\* and have one length, so a torn read of the string header yields one of
\* them as well.
UseDefault(c) ==
    /\ phase = "main"
    /\ pc[c] = "start"
    /\ t' = [t EXCEPT ![c] = Logger]
    /\ referenced' = TRUE
    /\ pc' = [pc EXCEPT ![c] = "idle"]
    /\ UNCHANGED <<phase, exitCause, exeOK, dirs, files, today, heap, Logger,
                   messageType, message, handle, emitted, ret, ncalls, args, written>>

(* ------------------------------ WriteLog ------------------------------ *)

\* os.IsNotExist(err) for os.Stat(path) (line 150): the file is absent from
\* an existing directory, or the directory itself is absent.  A directory
\* path that is no directory, or a directory that cannot be searched, gives
\* another error (ENOTDIR, EACCES).
FileNotExist(path) ==
    \/ dirs[path[1]] = "absent"
    \/ dirs[path[1]] = "dir" /\ ~files[path].exists

\* os.Create(path) (line 151) opens with O_CREATE|O_TRUNC: the file exists
\* and is empty afterwards.
Created(path) == [files EXCEPT ![path] = [exists |-> TRUE, lines |-> <<>>]]

\* os.OpenFile(path, O_APPEND|O_CREATE|O_WRONLY) (line 52): the file exists
\* afterwards, its content kept.
Opened(path) == [files EXCEPT ![path].exists = TRUE]

\* A write through a handle opened with O_APPEND (line 62): the text goes
\* after the last byte of the file.  The file is kept as its lines; a last
\* line a failed write left without its newline is continued by the text.
Appended(path, text) ==
    LET lines == files[path].lines
        n == Len(lines)
    IN  IF text = <<>> THEN files
        ELSE IF n > 0 /\ lines[n][Len(lines[n])] # NL
        THEN [files EXCEPT ![path].lines[n] = @ \o text]
        ELSE [files EXCEPT ![path].lines = Append(@, text)]

\* Whether a file can be created or opened in the directory at all: not in
\* a missing, unsearchable, non-directory or inaccessible one.
Usable(dir) == dirs[dir] = "dir"

\* Variant of LogFilePathAt: the path is computed once and kept.
LogFilePathOnce(tw, day) ==
    IF tw.LogFilePath = NoPath THEN Join(tw.LogDir, LogFileName(day)) ELSE tw.LogFilePath

\* The path line 48 stores in t.LogFilePath, for the date read at line 47.
LogFilePathAt(tw, day) == Join(tw.LogDir, LogFileName(day))

\* WriteLog is entered (line 45); with SaveInLogFile, line 47 reads the
\* clock into the local date.
Begin(c, sev, msg, budget) ==
    /\ phase = "main"
    /\ pc[c] = "idle"
    /\ ncalls < budget
    /\ ncalls' = ncalls + 1
    /\ messageType' = [messageType EXCEPT ![c] = sev]
    /\ message' = [message EXCEPT ![c] = msg]
    /\ emitted' = [emitted EXCEPT ![c] = <<>>]
    /\ ret' = [ret EXCEPT ![c] = NoResult]
    /\ args' = [args EXCEPT ![c] = [sev |-> sev, msg |-> msg, day |-> today]]
    /\ pc' = [pc EXCEPT ![c] = IF heap[t[c]].SaveInLogFile THEN "store" ELSE "color"]
    /\ UNCHANGED <<phase, exitCause, exeOK, dirs, files, today, heap, Logger,
                   referenced, t, handle, written>>

\* Line 48 stores the path of the date read at line 47 in t.LogFilePath.
\* The date may have changed since, and another caller of the same logger may
\* have stored its own path in between.
StorePath(c) ==
    /\ phase = "main"
    /\ pc[c] = "store"
    /\ heap' = [heap EXCEPT ![t[c]].LogFilePath = LogFilePathAt(heap[t[c]], args[c].day)]
    /\ pc' = [pc EXCEPT ![c] = "stat"]
    /\ UNCHANGED <<phase, exitCause, exeOK, dirs, files, today, Logger, referenced, t,
                   messageType, message, handle, emitted, ret, ncalls, args, written>>

WriteLogCall(c, sevs, msgs, budget) ==
    \E sev \in sevs, msg \in msgs : Begin(c, sev, msg, budget)

\* Lines 95-117.
ErrorCall(c, msgs, budget) == \E msg \in msgs : Begin(c, Error, msg, budget)

WarningCall(c, msgs, budget) == \E msg \in msgs : Begin(c, Warning, msg, budget)

InfoCall(c, msgs, budget) == \E msg \in msgs : Begin(c, Info, msg, budget)

SuccessCall(c, msgs, budget) == \E msg \in msgs : Begin(c, Success, msg, budget)

DebugCall(c, msgs, budget) == \E msg \in msgs : Begin(c, Debug, msg, budget)

TraceCall(c, msgs, budget) == \E msg \in msgs : Begin(c, Trace, msg, budget)

\* createLogFile is entered: os.Stat(t.LogFilePath) (line 150).
StatLogFile(c) ==
    /\ phase = "main"
    /\ pc[c] = "stat"
    /\ pc' = [pc EXCEPT ![c] =
                 IF FileNotExist(heap[t[c]].LogFilePath) THEN "create" ELSE "open"]
    /\ UNCHANGED <<phase, exitCause, exeOK, dirs, files, today, heap, Logger,
                   referenced, t, messageType, message, handle, emitted, ret, ncalls,
                   args, written>>

\* createLogFile after a not-exist stat (lines 151-155): os.Create, then
\* Close; log.Fatalf when os.Create fails.
CreateLogFile(c) ==
    /\ phase = "main"
    /\ pc[c] = "create"
    /\ LET path == heap[t[c]].LogFilePath
       IN  \E createOK \in BOOLEAN :
            IF Usable(path[1]) /\ createOK
            THEN /\ files' = Created(path)
                 /\ pc' = [pc EXCEPT ![c] = "open"]
                 /\ UNCHANGED <<phase, exitCause>>
            ELSE /\ Fatalf("Failed to create log file")
                 /\ UNCHANGED <<files, pc>>
    /\ UNCHANGED <<exeOK, dirs, today, heap, Logger, referenced, t, messageType,
                   message, handle, emitted, ret, ncalls, args, written>>

\* os.OpenFile (lines 52-56): log.Fatalf when it fails, else the handle is
\* held and its Close deferred to the return of WriteLog.
OpenFile(c) ==
    /\ phase = "main"
    /\ pc[c] = "open"
    /\ LET path == heap[t[c]].LogFilePath
       IN  \E openOK \in BOOLEAN :
            IF Usable(path[1]) /\ openOK
            THEN /\ files' = Opened(path)
                 /\ handle' = [handle EXCEPT ![c] = path]
                 /\ pc' = [pc EXCEPT ![c] = "write"]
                 /\ UNCHANGED <<phase, exitCause>>
            ELSE /\ Fatalf("Failed to open log file")
                 /\ UNCHANGED <<files, handle, pc>>
    /\ UNCHANGED <<exeOK, dirs, today, heap, Logger, referenced, t, messageType,
                   message, emitted, ret, ncalls, args, written>>

\* The writes that have failed so far.
WriteFailures == Cardinality({i \in 1..Len(written) : ~written[i].ok})

\* logger.Printf (lines 58-62) writes the line through the handle.  The error
\* of the write is discarded: a failed write goes unnoticed, whatever part
\* of the line it left in the file, and WriteLog carries on.
Printf(c) ==
    /\ phase = "main"
    /\ pc[c] = "write"
    /\ LET line == FileLine(heap[t[c]].WithTime, messageType[c], message[c])
       IN  \E text \in Landed(line) :
             /\ text # line => WriteFailures < MaxWriteFailures
             /\ files' = Appended(handle[c], text)
             /\ written' = Append(written, [call |-> ncalls, day |-> args[c].day,
                                            path |-> handle[c], line |-> line,
                                            text |-> text, ok |-> (text = line)])
    /\ pc' = [pc EXCEPT ![c] = "color"]
    /\ UNCHANGED <<phase, exitCause, exeOK, dirs, today, heap, Logger, referenced, t,
                   messageType, message, handle, emitted, ret, ncalls, args>>

\* Lines 65-67.
Colorize(c) ==
    /\ phase = "main"
    /\ pc[c] = "color"
    /\ LET colored == IF heap[t[c]].ColorMessages
                      THEN setColor(heap[t[c]].FGColor, heap[t[c]].BGColor,
                                    messageType[c], message[c])
                      ELSE <<messageType[c], message[c]>>
       IN  /\ messageType' = [messageType EXCEPT ![c] = colored[1]]
           /\ message' = [message EXCEPT ![c] = colored[2]]
    /\ pc' = [pc EXCEPT ![c] = "console"]
    /\ UNCHANGED <<phase, exitCause, exeOK, dirs, files, today, heap, Logger,
                   referenced, t, handle, emitted, ret, ncalls, args, written>>

\* Lines 69-75.
Console(c) ==
    /\ phase = "main"
    /\ pc[c] = "console"
    /\ emitted' = [emitted EXCEPT ![c] =
                      IF heap[t[c]].ShowInConsole
                      THEN Append(@, ConsoleLine(heap[t[c]].WithTime,
                                                 messageType[c], message[c]))
                      ELSE @]
    /\ pc' = [pc EXCEPT ![c] = "return"]
    /\ UNCHANGED <<phase, exitCause, exeOK, dirs, files, today, heap, Logger,
                   referenced, t, messageType, message, handle, ret, ncalls, args, written>>

\* Variant of Return: the handle is never closed.
ReturnLeak(c) ==
    /\ phase = "main"
    /\ pc[c] = "return"
    /\ messageType' = [messageType EXCEPT ![c] = <<>>]
    /\ message' = [message EXCEPT ![c] = <<>>]
    /\ args' = [args EXCEPT ![c] = NoArgs]
    /\ pc' = [pc EXCEPT ![c] = "idle"]
    /\ UNCHANGED <<phase, exitCause, exeOK, dirs, files, today, heap, Logger,
                   referenced, t, handle, emitted, ret, ncalls, written>>

\* WriteLog returns (line 76): the deferred file.Close() of line 56 runs and
\* the parameters go out of scope.
Return(c) ==
    /\ phase = "main"
    /\ pc[c] = "return"
    /\ handle' = [handle EXCEPT ![c] = NoPath]
    /\ messageType' = [messageType EXCEPT ![c] = <<>>]
    /\ message' = [message EXCEPT ![c] = <<>>]
    /\ args' = [args EXCEPT ![c] = NoArgs]
    /\ pc' = [pc EXCEPT ![c] = "idle"]
    /\ UNCHANGED <<phase, exitCause, exeOK, dirs, files, today, heap, Logger,
                   referenced, t, emitted, ret, ncalls, written>>

(* --------------------------- render helpers --------------------------- *)

StructToStringCall(c, budget) ==
    /\ phase = "main"
    /\ pc[c] = "idle"
    /\ ncalls < budget
    /\ ncalls' = ncalls + 1
    /\ \E v \in Values, simple \in BOOLEAN :
        ret' = [ret EXCEPT ![c] = [str |-> StructToString(v, simple), err |-> "nil"]]
    /\ UNCHANGED <<phase, exitCause, exeOK, dirs, files, today, heap, Logger,
                   referenced, t, pc, messageType, message, handle, emitted, args, written>>

StructToJsonCall(c, budget) ==
    /\ phase = "main"
    /\ pc[c] = "idle"
    /\ ncalls < budget
    /\ ncalls' = ncalls + 1
    /\ \E v \in Values : ret' = [ret EXCEPT ![c] = StructToJson(v)]
    /\ UNCHANGED <<phase, exitCause, exeOK, dirs, files, today, heap, Logger,
                   referenced, t, pc, messageType, message, handle, emitted, args, written>>

(* --------------------------- specifications --------------------------- *)

\* Caller c gets a logger, calls WriteLog and goes through its steps, with
\* the inputs it may pass and the number of calls the process makes.
WriteLogNext(c, flagSets, sevs, msgs, budget) ==
    \/ NewTwlcCall(c, flagSets)
    \/ UseDefault(c)
    \/ WriteLogCall(c, sevs, msgs, budget)
    \/ StorePath(c)
    \/ StatLogFile(c)
    \/ CreateLogFile(c)
    \/ OpenFile(c)
    \/ Printf(c)
    \/ Colorize(c)
    \/ Console(c)
    \/ Return(c)

\* Everything caller c can do: WriteLog, the six shorthands and the two
\* render helpers.
CallerNext(c, flagSets, sevs, msgs, budget) ==
    \/ NewTwlcCall(c, flagSets)
    \/ UseDefault(c)
    \/ WriteLogCall(c, sevs, msgs, budget)
    \/ ErrorCall(c, msgs, budget)
    \/ WarningCall(c, msgs, budget)
    \/ InfoCall(c, msgs, budget)
    \/ SuccessCall(c, msgs, budget)
    \/ DebugCall(c, msgs, budget)
    \/ TraceCall(c, msgs, budget)
    \/ StorePath(c)
    \/ StatLogFile(c)
    \/ CreateLogFile(c)
    \/ OpenFile(c)
    \/ Printf(c)
    \/ Colorize(c)
    \/ Console(c)
    \/ Return(c)
    \/ StructToStringCall(c, budget)
    \/ StructToJsonCall(c, budget)

\* The message the callers of Spec and SpecConc pass.
PlainMessages == {<<"a">>}

\* The loggers of Spec: every combination of the sinks and the timestamp,
\* with the three color flags all off or all on (SpecOnce has all 64).
SeqFlagSets == {f \in FlagSets : f.BGColor = f.ColorMessages /\ f.FGColor = f.ColorMessages}

\* One caller making a sequence of calls to WriteLog and the render helpers:
\* the single-threaded use the package is written for.  The shorthands, which
\* only pass their severity on to WriteLog, are in SpecOnce.
Next ==
    \/ PackageInit
    \/ Tick
    \/ WriteLogNext(1, SeqFlagSets, {Audit}, PlainMessages, MaxCalls)
    \/ StructToStringCall(1, MaxCalls)
    \/ StructToJsonCall(1, MaxCalls)

Spec == Init /\ [][Next]_vars

\* One caller making a single call of any operation, with every severity
\* and every message.
NextOnce ==
    \/ PackageInit
    \/ Tick
    \/ CallerNext(1, FlagSets, Severities \cup {Audit}, Messages, 1)

SpecOnce == Init /\ [][NextOnce]_vars

\* One caller making a sequence of calls of any operation, on a logger of
\* any of the 64 flag sets, with every severity.
NextFrame ==
    \/ PackageInit
    \/ Tick
    \/ CallerNext(1, FlagSets, Severities \cup {Audit}, PlainMessages, MaxCalls)

SpecFrame == Init /\ [][NextFrame]_vars

\* The loggers of SpecConc persist and print, with and without timestamps.
ConcFlagSets == {f \in FlagSets : f.SaveInLogFile /\ f.ShowInConsole /\ ~f.ColorMessages
                                  /\ ~f.BGColor /\ ~f.FGColor}

\* Two callers, each with a logger of its own on the same log directory or
\* both with the default logger, interleaved at the steps of WriteLog.
NextConc ==
    \/ PackageInit
    \/ Tick
    \/ \E c \in Callers : WriteLogNext(c, ConcFlagSets, {Audit}, PlainMessages, MaxCalls)

SpecConc == Init /\ [][NextConc]_vars

(* ------------------------------- claims ------------------------------- *)

Range(s) == {s[i] : i \in 1..Len(s)}

RECURSIVE Flat(_)
\* The concatenation of a sequence of texts: the bytes of a file kept as lines.
Flat(ss) == IF ss = <<>> THEN <<>> ELSE ss[1] \o Flat(Tail(ss))

IsSuffix(s, u) == Len(s) <= Len(u) /\ SubSeq(u, Len(u) - Len(s) + 1, Len(u)) = s

IsPrefix(s, u) == Len(s) <= Len(u) /\ \A i \in 1..Len(s) : s[i] = u[i]

EndsWithNewline(s) == Len(s) > 0 /\ s[Len(s)] = NL

\* The receiver of caller c.
Cfg(c) == heap[t[c]]

\* The name the specification gives the log file of a day: twlc_<YYYYMMDD>.log.
DatedName(day) == "twlc_2025010" \o ToString(day) \o ".log"

\* The lines of the calls made on a day by loggers of a directory, in the
\* order of the calls.
LinesOf(dir, day) ==
    LET sel == SelectSeq(written, LAMBDA w : w.day = day /\ w.path[1] = dir)
    IN  [i \in 1..Len(sel) |-> sel[i].line]

\* C1: with persistence, the file <logDirectory>/twlc_<date>.log holds
\* exactly the lines of the calls made on that date, in call order (a second
\* call on a date keeps the first line and adds its own after it), and calls
\* on different dates write to distinct files, each named by its own date.
C1_DatedFilesAppend ==
    /\ \A dir \in LogDirs, day \in Days :
        files[<<dir, DatedName(day)>>].lines = LinesOf(dir, day)
    /\ \A d1, d2 \in Days : d1 # d2 => DatedName(d1) # DatedName(d2)
    /\ \A i \in 1..Len(written) : written[i].path[2] = DatedName(written[i].day)

WriteLogFatal == {"Failed to create log file", "Failed to open log file"}

\* C2: when a WriteLog call fails to create or open the log file the
\* process has ended, the failing call has appended no line to any file and
\* printed nothing to the console (whatever ShowInConsole is), and nothing
\* happens afterwards (no retry).
C2_NoSinkWriteAfterFatal ==
    /\ [](exitCause \in WriteLogFatal =>
            /\ phase = "exited"
            /\ \A c \in Callers : pc[c] \in {"create", "open"} =>
                /\ emitted[c] = <<>>
                /\ \A i \in 1..Len(written) : written[i].call # ncalls
                /\ \A p \in Paths :
                     Flat(files[p].lines) =
                       Flat(LET sel == SelectSeq(written, LAMBDA w : w.path = p)
                            IN  [i \in 1..Len(sel) |-> sel[i].text]))
    /\ [][(exitCause \in WriteLogFatal) => UNCHANGED vars]_vars

\* An open failure has ended the process in a call of a logger that prints
\* to the console.
C2_Witness ==
    /\ exitCause = "Failed to open log file"
    /\ pc[1] = "open"
    /\ Cfg(1).ShowInConsole
    /\ Len(written) = 1
    /\ written[1].ok

\* C3 as claimed: the handle opened in the persistence step is closed before
\* the colorization and console steps begin.
C3_ClosedBeforeColorize ==
    \A c \in Callers : pc[c] \in {"color", "console", "return", "idle"} => handle[c] = NoPath

\* C3 as amended: the handle opened in the persistence step stays open
\* through the colorization and console steps and is closed when WriteLog
\* returns; on the fatal paths (create or open failure) the call holds no
\* handle; no handle is open once the call has returned.
C3_ClosedOnReturn ==
    \A c \in Callers :
        /\ pc[c] \in {"start", "idle", "store", "stat", "create", "open"} =>
             handle[c] = NoPath
        /\ pc[c] \in {"write", "color", "console", "return"} =>
             handle[c] = (IF Cfg(c).SaveInLogFile THEN Cfg(c).LogFilePath ELSE NoPath)

\* The console line has been printed while the handle is still open.
C3_Witness ==
    /\ pc[1] = "return"
    /\ handle[1] # NoPath
    /\ Len(emitted[1]) = 1

\* The escape sequence the specification gives each severity.
ColorOf(sev) ==
    CASE sev = Info -> <<ESC, "[", "3", "4", "m">>
      [] sev = Success -> <<ESC, "[", "3", "2", "m">>
      [] sev = Warning -> <<ESC, "[", "3", "3", "m">>
      [] sev = Error -> <<ESC, "[", "3", "1", "m">>
      [] sev = Debug -> <<ESC, "[", "3", "5", "m">>
      [] sev = Trace -> <<ESC, "[", "3", "6", "m">>

ResetCode == <<ESC, "[", "0", "m">>

Tagged(tag, msg) == <<"[">> \o tag \o <<"]", " ">> \o msg

Stamp(c) == IF Cfg(c).WithTime THEN <<STAMP>> ELSE <<>>

\* C4 as claimed: with console output on and colorization off, WriteLog(S, M)
\* prints exactly "[S] M" and one newline, after a date-time stamp iff
\* WithTime, and no escape sequence.
C4_ConsoleOneNewline ==
    \A c \in Callers :
        (pc[c] = "return" /\ Cfg(c).ShowInConsole /\ ~Cfg(c).ColorMessages) =>
            /\ Len(emitted[c]) = 1
            /\ emitted[c][1].text = Stamp(c) \o Tagged(args[c].sev, args[c].msg) \o <<NL>>
            /\ ESC \notin Range(emitted[c][1].text)

\* C4 as amended: as claimed, except that with WithTime a message that
\* already ends with a newline gets no further newline: the printed text is
\* then the stamp and "[S] M" alone.
C4_ConsolePlain ==
    \A c \in Callers :
        (pc[c] = "return" /\ Cfg(c).ShowInConsole /\ ~Cfg(c).ColorMessages) =>
            /\ Len(emitted[c]) = 1
            /\ emitted[c][1].text =
                 Stamp(c) \o Tagged(args[c].sev, args[c].msg)
                    \o (IF Cfg(c).WithTime /\ EndsWithNewline(args[c].msg)
                        THEN <<>> ELSE <<NL>>)
            /\ ESC \notin Range(emitted[c][1].text)

\* A timestamped, uncolored call whose message ends with a newline has printed.
C4_Witness ==
    /\ pc[1] = "return"
    /\ Cfg(1).ShowInConsole /\ ~Cfg(1).ColorMessages /\ Cfg(1).WithTime
    /\ Cfg(1).FGColor /\ Cfg(1).BGColor
    /\ EndsWithNewline(args[1].msg)
    /\ Len(emitted[1]) = 1

\* The tag and the message colorization yields for caller c's call.
ColoredTag(c) ==
    IF args[c].sev \in Severities /\ Cfg(c).BGColor
    THEN ColorOf(args[c].sev) \o args[c].sev \o ResetCode
    ELSE args[c].sev

ColoredMsg(c) ==
    IF args[c].sev \in Severities /\ Cfg(c).FGColor
    THEN ColorOf(args[c].sev) \o args[c].msg \o ResetCode
    ELSE args[c].msg

ScenarioFlags ==
    [SaveInLogFile |-> FALSE, ShowInConsole |-> TRUE, ColorMessages |-> TRUE,
     BGColor |-> FALSE, FGColor |-> TRUE, WithTime |-> FALSE]

FlagsOf(tw) == [f \in DOMAIN ScenarioFlags |-> tw[f]]

InScenario(c) ==
    /\ FlagsOf(Cfg(c)) = ScenarioFlags
    /\ args[c].sev = Error
    /\ args[c].msg = DiskFull

\* C5: with colorization on, the message is wrapped in the severity's escape
\* code and the reset code iff FGColor, the tag iff BGColor, independently; a
\* severity outside the color table leaves both as passed; and the scenario
\* Error("disk full") prints "[ERROR] " ESC"[31m" "disk full" ESC"[0m" newline.
C5_Colorization ==
    \A c \in Callers :
        (pc[c] = "return" /\ Cfg(c).ColorMessages) =>
            /\ messageType[c] = ColoredTag(c)
            /\ message[c] = ColoredMsg(c)
            /\ Cfg(c).ShowInConsole =>
                 /\ Len(emitted[c]) = 1
                 /\ emitted[c][1].text =
                      Stamp(c) \o Tagged(ColoredTag(c), ColoredMsg(c))
                         \o (IF Cfg(c).WithTime /\ EndsWithNewline(ColoredMsg(c))
                             THEN <<>> ELSE <<NL>>)
            /\ InScenario(c) =>
                 emitted[c] = << [stream |-> "stdout",
                                  text |-> <<"[", "E", "R", "R", "O", "R", "]", " ",
                                             ESC, "[", "3", "1", "m",
                                             "d", "i", "s", "k", " ", "f", "u", "l", "l",
                                             ESC, "[", "0", "m", NL>>] >>

\* The scenario of the claim has printed its line.
C5_Witness ==
    /\ pc[1] = "return"
    /\ InScenario(1)
    /\ Len(emitted[1]) = 1

\* C10: the line WriteLog(S, M) writes to the file is the header and the
\* plain "[S] M", whatever the color flags, and when the write succeeds it is
\* the last line of the file: no escape sequence reaches a file.
C10_FileLinePlain ==
    /\ \A c \in Callers :
        (pc[c] \in {"color", "console", "return"} /\ Cfg(c).SaveInLogFile) =>
            /\ Len(written) >= 1
            /\ LET w == written[Len(written)]
                   lines == files[Cfg(c).LogFilePath].lines
               IN  /\ w.line =
                        <<STAMP>> \o (IF Cfg(c).WithTime THEN <<LOC>> ELSE <<>>)
                           \o Tagged(args[c].sev, args[c].msg)
                           \o (IF EndsWithNewline(args[c].msg) THEN <<>> ELSE <<NL>>)
                   /\ w.ok => IsSuffix(w.line, Flat(lines))
    /\ \A p \in Paths : \A i \in 1..Len(files[p].lines) : ESC \notin Range(files[p].lines[i])

\* A call has written its file line and printed a colorized console line.
C10_Witness ==
    /\ pc[1] = "return"
    /\ Cfg(1).SaveInLogFile /\ Cfg(1).ColorMessages /\ Cfg(1).FGColor /\ Cfg(1).BGColor
    /\ args[1].sev \in Severities
    /\ Len(emitted[1]) = 1
    /\ ESC \in Range(emitted[1][1].text)
    /\ written[1].ok
    /\ files[Cfg(1).LogFilePath].lines = <<written[1].line>>

\* C6: whenever NewTwlc has returned a logger, its LogDir is a directory.
C6_DirEnsured ==
    \A c \in Callers : t[c] = Addr(c) => dirs[heap[t[c]].LogDir] \in {"dir", "nosearch"}

\* C7: until main first uses the package variable Logger,
\* DefaultTwlc has had no effect: no default logger, no abort on the
\* executable path.
C7_Lazy == ~referenced => (Logger = Nil /\ exitCause # "panic")

\* The six flags and LogDir of a logger.
Config(tw) == <<FlagsOf(tw), tw.LogDir>>

\* Whether this step is caller c executing line 48 of WriteLog.
Stores(c) == pc[c] = "store" /\ pc'[c] # "store"

\* C8: no operation changes a logger's flags or LogDir; LogFilePath starts
\* empty and changes only in WriteLog, to <LogDir>/twlc_<date of the call>.log
\* with SaveInLogFile and not at all without.
C8_Frame ==
    [][/\ \A a \in DOMAIN heap' :
            IF a \in DOMAIN heap
            THEN /\ Config(heap'[a]) = Config(heap[a])
                 /\ heap'[a].LogFilePath =
                      (IF \E c \in Callers : t[c] = a /\ Stores(c)
                       THEN <<heap[a].LogDir, DatedName(args[CHOOSE c \in Callers :
                                                               t[c] = a /\ Stores(c)].day)>>
                       ELSE heap[a].LogFilePath)
            ELSE heap'[a].LogFilePath = NoPath
       /\ \A c \in Callers : Stores(c) => heap[t[c]].SaveInLogFile]_vars

\* Two calls have returned, the second the shorthand Error, whose message
\* setColor has colorized for the console; the date has changed since the
\* path was set.
C8_Witness ==
    /\ pc[1] = "idle"
    /\ ncalls >= 2
    /\ t[1] = Addr(1)
    /\ Cfg(1).ColorMessages /\ Cfg(1).FGColor /\ ~Cfg(1).BGColor
    /\ Len(written) = 2
    /\ written[2].line = FileLine(Cfg(1).WithTime, Error, <<"a">>)
    /\ Len(emitted[1]) = 1
    /\ ESC \in Range(emitted[1][1].text)
    /\ Cfg(1).LogFilePath = <<UserLogDir, DatedName(1)>>
    /\ today = 2

\* C9: a line appended to a log file is never removed, truncated or
\* overwritten by a later step, under every interleaving of two callers.
C9_AppendOnly ==
    [][\A p \in Paths : IsPrefix(Flat(files[p].lines), Flat(files'[p].lines))]_vars

====
